---------------------------- MODULE Spec2Model ----------------------------
(***************************************************************************)
(* earthaccess/geopandas.py: conversion of earthaccess search results to a *)
(* geopandas GeoDataFrame.                                                 *)
(*                                                                         *)
(* The module has three functions that do work: _flatten_column_names,     *)
(* _get_shapely_object and results_to_geopandas (plus the small            *)
(* _list_metadata_fields).  Each is a pure function of its arguments, so   *)
(* the state machine is a set of calls: Init draws a call and its          *)
(* arguments from bounded sets, and one action per function runs the       *)
(* whole function and records what it returned or raised.                  *)
(*                                                                         *)
(* Python values are tagged records [t, v]; a Python str that the code     *)
(* splits, scans or lower-cases is a sequence of one-character strings, so *)
(* that the character-level work of _flatten_column_names is computed and  *)
(* not assumed.  An evaluation that may raise yields a record              *)
(* [ok, val, exc]; a raise inside an expression propagates through Bind.   *)
(***************************************************************************)
EXTENDS Integers, Sequences, FiniteSets, TLC

VARIABLES
    fn,        \* the function being called
    pc,        \* "call" before the function has run, "done" after
    df,        \* argument of _flatten_column_names: [columns, data]
    result,    \* argument of _get_shapely_object: one granule
    results,   \* argument of results_to_geopandas / _list_metadata_fields
    fields,    \* argument of results_to_geopandas
    ret        \* what the call returned or raised: [ok, val, exc]

vars == <<fn, pc, df, result, results, fields, ret>>

---------------------------------------------------------------------------
(* Bounds of the model.                                                    *)

\* longest column name drawn for _flatten_column_names
MaxNameLen == 4
\* coordinates of bounding rectangles are drawn from 0..MaxCoord
MaxCoord == 1
\* most entries of a BoundingRectangles / GPolygons list
MaxShapes == 2
\* most points of a GPolygon boundary
MaxPoints == 4
\* most granules in one call of results_to_geopandas
MaxResults == 2
\* most entries of one granule's RelatedUrls list
MaxLinks == 2

---------------------------------------------------------------------------
(* Python strings as character sequences.                                  *)

\* the characters of the str literals and mapping keys that become column names
Chars(s) ==
    CASE s = "umm" -> <<"u", "m", "m">>
      [] s = "meta" -> <<"m", "e", "t", "a">>
      [] s = "size" -> <<"s", "i", "z", "e">>
      [] s = "SpatialExtent" -> <<"S", "p", "a", "t", "i", "a", "l", "E", "x", "t", "e", "n", "t">>
      [] s = "HorizontalSpatialDomain" -> <<"H", "o", "r", "i", "z", "o", "n", "t", "a", "l", "S", "p", "a", "t", "i", "a", "l", "D", "o", "m", "a", "i", "n">>
      [] s = "Geometry" -> <<"G", "e", "o", "m", "e", "t", "r", "y">>
      [] s = "BoundingRectangles" -> <<"B", "o", "u", "n", "d", "i", "n", "g", "R", "e", "c", "t", "a", "n", "g", "l", "e", "s">>
      [] s = "GPolygons" -> <<"G", "P", "o", "l", "y", "g", "o", "n", "s">>
      [] s = "RelatedUrls" -> <<"R", "e", "l", "a", "t", "e", "d", "U", "r", "l", "s">>
      [] s = "GranuleUR" -> <<"G", "r", "a", "n", "u", "l", "e", "U", "R">>
      [] s = "concept-id" -> <<"c", "o", "n", "c", "e", "p", "t", "-", "i", "d">>
      [] s = "CollectionReference" -> <<"C", "o", "l", "l", "e", "c", "t", "i", "o", "n", "R", "e", "f", "e", "r", "e", "n", "c", "e">>
      [] s = "MetadataSpecification" -> <<"M", "e", "t", "a", "d", "a", "t", "a", "S", "p", "e", "c", "i", "f", "i", "c", "a", "t", "i", "o", "n">>
      [] s = "Version" -> <<"V", "e", "r", "s", "i", "o", "n">>
      [] s = "concept_id" -> <<"c", "o", "n", "c", "e", "p", "t", "_", "i", "d">>
      [] s = "dataset-id" -> <<"d", "a", "t", "a", "s", "e", "t", "-", "i", "d">>
      [] s = "native-id" -> <<"n", "a", "t", "i", "v", "e", "-", "i", "d">>
      [] s = "provider-id" -> <<"p", "r", "o", "v", "i", "d", "e", "r", "-", "i", "d">>
      [] s = "_related_urls" -> <<"_", "r", "e", "l", "a", "t", "e", "d", "_", "u", "r", "l", "s">>
      [] s = "_single_date_time" -> <<"_", "s", "i", "n", "g", "l", "e", "_", "d", "a", "t", "e", "_", "t", "i", "m", "e">>
      [] s = "_beginning_date_time" -> <<"_", "b", "e", "g", "i", "n", "n", "i", "n", "g", "_", "d", "a", "t", "e", "_", "t", "i", "m", "e">>
      [] s = "_ending_date_time" -> <<"_", "e", "n", "d", "i", "n", "g", "_", "d", "a", "t", "e", "_", "t", "i", "m", "e">>
      [] s = "geometry" -> <<"g", "e", "o", "m", "e", "t", "r", "y">>
      [] s = "_granule_ur" -> <<"_", "g", "r", "a", "n", "u", "l", "e", "_", "u", "r">>
      [] s = "_version" -> <<"_", "v", "e", "r", "s", "i", "o", "n">>
      [] s = "umm.RelatedUrls" -> <<"u", "m", "m", ".", "R", "e", "l", "a", "t", "e", "d", "U", "r", "l", "s">>
      [] s = "umm.SizeMB" -> <<"u", "m", "m", ".", "S", "i", "z", "e", "M", "B">>
      [] s = "_size_mb" -> <<"_", "s", "i", "z", "e", "_", "m", "b">>
      [] s = "_size_m_b" -> <<"_", "s", "i", "z", "e", "_", "m", "_", "b">>

\* the character class [A-Z] of the pattern "([A-Z]+)"
Upper ==
    {"A", "B", "C", "D", "E", "F", "G", "H", "I", "J", "K", "L", "M", "N", "O", "P", "Q", "R", "S", "T", "U", "V", "W", "X", "Y", "Z"}

LowerOf ==
    [A |-> "a", B |-> "b", C |-> "c", D |-> "d", E |-> "e", F |-> "f", G |-> "g", H |-> "h", I |-> "i", J |-> "j", K |-> "k", L |-> "l", M |-> "m", N |-> "n", O |-> "o", P |-> "p", Q |-> "q", R |-> "r", S |-> "s", T |-> "t", U |-> "u", V |-> "v", W |-> "w", X |-> "x", Y |-> "y", Z |-> "z"]

\* a bug that forgets the lower-casing
LowerCharKeep(c) == c

\* str.lower() on one character
LowerChar(c) == IF c \in Upper THEN LowerOf[c] ELSE c

\* str.lower()
Lower(s) == [i \in 1..Len(s) |-> LowerChar(s[i])]

\* position of the last "." of s, 0 when there is none
RECURSIVE LastDot(_, _)
LastDot(s, i) ==
    IF i = 0 THEN 0
    ELSE IF s[i] = "." THEN i
    ELSE LastDot(s, i - 1)

\* col.split(".")[-1]
LastSegment(s) == SubSeq(s, LastDot(s, Len(s)) + 1, Len(s))

\* a bug whose pattern is "([A-Z])": every upper-case letter is a match
RunEndSingle(s, i) == i

\* last position of the run of [A-Z] characters that starts at i (greedy +)
RECURSIVE RunEnd(_, _)
RunEnd(s, i) ==
    IF i < Len(s) /\ s[i + 1] \in Upper THEN RunEnd(s, i + 1) ELSE i

\* re.sub("([A-Z]+)", r"_\1", s), scanning s from position i: each match,
\* a maximal run of [A-Z], is replaced by "_" and the run itself
RECURSIVE ReSubFrom(_, _)
ReSubFrom(s, i) ==
    IF i > Len(s) THEN <<>>
    ELSE IF s[i] \in Upper
         THEN LET j == RunEnd(s, i)
              IN  <<"_">> \o SubSeq(s, i, j) \o ReSubFrom(s, j + 1)
         ELSE <<s[i]>> \o ReSubFrom(s, i + 1)

\* the expression of the list comprehension, for one column name
NormalizeName(col) == Lower(ReSubFrom(LastSegment(col), 1))

\* _flatten_column_names: df.columns is replaced, the data is not touched
FlattenColumnNames(d) ==
    [d EXCEPT !.columns = [i \in 1..Len(d.columns) |-> NormalizeName(d.columns[i])]]

---------------------------------------------------------------------------
(* Python values and the operations of the code on them.                   *)

None == [t |-> "none", v |-> 0]
NaN == [t |-> "nan", v |-> 0]
Num(n) == [t |-> "num", v |-> n]
Str(s) == [t |-> "str", v |-> s]
\* a list: v is the sequence of its items
List(items) == [t |-> "list", v |-> items]
\* a dict: v is the sequence of its <<key, value>> items in insertion order
Dict(items) == [t |-> "dict", v |-> items]

\* the outcome of evaluating an expression: a value or a raised exception
Ok(v) == [ok |-> TRUE, val |-> v, exc |-> "none"]
Raise(e) == [ok |-> FALSE, val |-> None, exc |-> e]

\* evaluation order: F is applied to the value of r unless r raised
Bind(r, F(_)) == IF r.ok THEN F(r.val) ELSE r

\* k in d.keys()
HasKey(d, k) == \E i \in 1..Len(d.v) : d.v[i][1] = k

DictGet(d, k) == d.v[CHOOSE i \in 1..Len(d.v) : d.v[i][1] = k][2]

\* x[k] for a str k: KeyError on a dict without k, TypeError on anything
\* that is not a mapping (list and str indices must be integers, None and
\* numbers are not subscriptable)
GetItem(x, k) ==
    IF x.t = "dict"
    THEN IF HasKey(x, k) THEN Ok(DictGet(x, k)) ELSE Raise("KeyError")
    ELSE Raise("TypeError")

\* x[0]: IndexError on an empty list, KeyError on a dict (its keys are str)
GetFirst(x) ==
    IF x.t = "list"
    THEN IF Len(x.v) = 0 THEN Raise("IndexError") ELSE Ok(x.v[1])
    ELSE IF x.t = "dict" THEN Raise("KeyError")
    ELSE Raise("TypeError")

\* x.keys(): AttributeError on anything that is not a mapping
Keys(x) ==
    IF x.t = "dict" THEN Ok({x.v[i][1] : i \in 1..Len(x.v)})
    ELSE Raise("AttributeError")

---------------------------------------------------------------------------
(* shapely geometries: a polygon is its exterior ring, the sequence of its *)
(* <<x, y>> coordinates as shapely stores them.                            *)

Geom(ring) == [t |-> "polygon", v |-> ring]

\* the ring shapely stores for a shell of three or more coordinates: the
\* first coordinate is repeated at the end when the shell is not closed,
\* and always when it has only three coordinates
CloseRing(ring) ==
    IF Len(ring) = 3 \/ ring[1] # ring[Len(ring)]
    THEN Append(ring, ring[1])
    ELSE ring

\* shapely.geometry.Polygon(shell) for a list of [x, y] pairs: an empty
\* shell gives the empty polygon, one or two coordinates raise ValueError,
\* a coordinate that is not a number raises TypeError
Polygon(shell) ==
    IF \E i \in 1..Len(shell) : shell[i][1].t # "num" \/ shell[i][2].t # "num"
    THEN Raise("TypeError")
    ELSE IF Len(shell) = 0 THEN Ok(Geom(<<>>))
    ELSE IF Len(shell) < 3 THEN Raise("ValueError")
    ELSE Ok(Geom(CloseRing([i \in 1..Len(shell) |-> <<shell[i][1].v, shell[i][2].v>>])))

\* shapely.geometry.box(minx, miny, maxx, maxy, ccw=True): the polygon of
\* (maxx, miny), (maxx, maxy), (minx, maxy), (minx, miny)
Box(minx, miny, maxx, maxy) ==
    Polygon(<< <<maxx, miny>>, <<maxx, maxy>>, <<minx, maxy>>, <<minx, miny>> >>)

---------------------------------------------------------------------------
(* _get_shapely_object                                                     *)

\* a tuple display (a, b, c, d): the items are evaluated in order and the
\* first that raises ends the evaluation
Tuple4(a, b, c, d) ==
    IF ~a.ok THEN a ELSE IF ~b.ok THEN b ELSE IF ~c.ok THEN c ELSE IF ~d.ok THEN d
    ELSE Ok(<<a.val, b.val, c.val, d.val>>)

\* a list display [a, b]
Pair(a, b) == IF ~a.ok THEN a ELSE IF ~b.ok THEN b ELSE Ok(<<a.val, b.val>>)

\* one step of a list comprehension: the item, then the rest
Cons(head, rest) ==
    IF ~head.ok THEN head ELSE IF ~rest.ok THEN rest ELSE Ok(<<head.val>> \o rest.val)

\* lines 39-44: bbox_coords
BboxCoords(rect) ==
    Tuple4(GetItem(rect, "WestBoundingCoordinate"), GetItem(rect, "SouthBoundingCoordinate"),
           GetItem(rect, "EastBoundingCoordinate"), GetItem(rect, "NorthBoundingCoordinate"))

\* a bug that takes the last rectangle: geo["BoundingRectangles"][-1]
GetLast(x) ==
    IF x.t = "list"
    THEN IF Len(x.v) = 0 THEN Raise("IndexError") ELSE Ok(x.v[Len(x.v)])
    ELSE IF x.t = "dict" THEN Raise("KeyError")
    ELSE Raise("TypeError")

BoxOfLastRectangle(geo) ==
    Bind(Bind(Bind(GetItem(geo, "BoundingRectangles"), GetLast), BboxCoords),
         LAMBDA c : Box(c[1], c[2], c[3], c[4]))

\* the bounding rectangle branch, lines 37-46
BoxOfRectangles(geo) ==
    Bind(Bind(Bind(GetItem(geo, "BoundingRectangles"), GetFirst), BboxCoords),
         LAMBDA c : Box(c[1], c[2], c[3], c[4]))

\* a bug that builds the pairs as [latitude, longitude]
RECURSIVE PointPairsSwapped(_, _)
PointPairsSwapped(points, i) ==
    IF i > Len(points) THEN Ok(<<>>)
    ELSE Cons(Pair(GetItem(points[i], "Latitude"), GetItem(points[i], "Longitude")),
              PointPairsSwapped(points, i + 1))

\* [[p["Longitude"], p["Latitude"]] for p in points], from item i on
RECURSIVE PointPairs(_, _)
PointPairs(points, i) ==
    IF i > Len(points) THEN Ok(<<>>)
    ELSE Cons(Pair(GetItem(points[i], "Longitude"), GetItem(points[i], "Latitude")),
              PointPairs(points, i + 1))

\* iterating over something that is not a list: a dict yields its str keys,
\* whose subscript by "Longitude" raises TypeError; None and numbers are
\* not iterable (TypeError); an empty dict or str yields nothing
PairsOf(points) ==
    IF points.t = "list" THEN PointPairs(points.v, 1)
    ELSE IF points.t = "dict" /\ Len(points.v) = 0 THEN Ok(<<>>)
    ELSE IF points.t = "str" /\ points.v = "" THEN Ok(<<>>)
    ELSE Raise("TypeError")

\* the polygon branch, lines 48-52
PolygonOfGPolygons(geo) ==
    Bind(Bind(Bind(Bind(Bind(GetItem(geo, "GPolygons"), GetFirst),
                        LAMBDA g : GetItem(g, "Boundary")),
                   LAMBDA b : GetItem(b, "Points")),
              PairsOf),
         Polygon)

\* the polygons tried after rectangles that raised
OrPolygons(box, geo) == IF box.ok THEN box ELSE PolygonOfGPolygons(geo)

\* a bug that falls back to the polygons when the rectangles fail
BranchWithFallback(geo, keys) ==
    IF "BoundingRectangles" \in keys
    THEN IF "GPolygons" \in keys THEN OrPolygons(BoxOfRectangles(geo), geo)
         ELSE BoxOfRectangles(geo)
    ELSE IF "GPolygons" \in keys THEN PolygonOfGPolygons(geo)
    ELSE Raise("ValueError")

\* the if / elif / else of lines 36-56
Branch(geo, keys) ==
    IF "BoundingRectangles" \in keys THEN BoxOfRectangles(geo)
    ELSE IF "GPolygons" \in keys THEN PolygonOfGPolygons(geo)
    ELSE Raise("ValueError")

\* lines 35-56, once geo is known
ShapeOf(geo) == Bind(Keys(geo), LAMBDA keys : Branch(geo, keys))

\* the body of the try statement, lines 34-56
TryBody(granule) ==
    Bind(Bind(Bind(Bind(GetItem(granule, "umm"),
                        LAMBDA x : GetItem(x, "SpatialExtent")),
                   LAMBDA x : GetItem(x, "HorizontalSpatialDomain")),
              LAMBDA x : GetItem(x, "Geometry")),
         ShapeOf)

\* a handler that catches lookup errors only: except (KeyError, IndexError)
CaughtLookupOnly(exc) == exc \in {"KeyError", "IndexError"}

\* "except Exception": every exception the body can raise is an Exception
Caught(exc) ==
    exc \in {"KeyError", "IndexError", "TypeError", "AttributeError", "ValueError"}

\* lines 57-60: shape stays None when the body raised and the handler
\* caught it
Handle(body) ==
    IF body.ok THEN body
    ELSE IF Caught(body.exc) THEN Ok(None)
    ELSE body

\* _get_shapely_object
GetShapelyObject(granule) == Handle(TryBody(granule))

---------------------------------------------------------------------------
(* The arguments the calls are drawn from.                                 *)

\* all sequences over S of length 0..n
SeqsUpTo(S, n) == UNION {[1..k -> S] : k \in 0..n}

Alphabet == {"a", "B", "C", "."}

\* the column names _flatten_column_names is called on: every short name
\* over Alphabet, and the two names of the documentation
ExampleNames == {Chars("umm.RelatedUrls"), Chars("umm.SizeMB")}
NameSet == SeqsUpTo(Alphabet, MaxNameLen) \cup ExampleNames

\* tables of two columns and one row
DfSet ==
    {[columns |-> <<a, b>>, data |-> << <<Num(1), Num(2)>> >>] :
        a \in NameSet, b \in ExampleNames}
    \cup
    {[columns |-> <<b, a>>, data |-> << <<Num(1), Num(2)>> >>] :
        a \in NameSet, b \in ExampleNames}

Coord == 0..MaxCoord

Rect(w, s, e, n) ==
    Dict(<< <<"WestBoundingCoordinate", Num(w)>>, <<"SouthBoundingCoordinate", Num(s)>>,
            <<"EastBoundingCoordinate", Num(e)>>, <<"NorthBoundingCoordinate", Num(n)>> >>)

GoodRects == {Rect(w, s, e, n) : w \in Coord, s \in Coord, e \in Coord, n \in Coord}

\* a rectangle without its north bound, one whose west bound is null, and
\* an entry that is no mapping
BadRects ==
    { Dict(<< <<"WestBoundingCoordinate", Num(0)>>, <<"SouthBoundingCoordinate", Num(0)>>,
              <<"EastBoundingCoordinate", Num(1)>> >>),
      Dict(<< <<"WestBoundingCoordinate", None>>, <<"SouthBoundingCoordinate", Num(0)>>,
              <<"EastBoundingCoordinate", Num(1)>>, <<"NorthBoundingCoordinate", Num(1)>> >>),
      None }

\* what follows the first rectangle of a list
LaterRects == {Rect(5, 6, 7, 8), None}

RectLists ==
    {<<>>} \cup
    {<<r>> \o tail : r \in GoodRects \cup BadRects,
                     tail \in SeqsUpTo(LaterRects, MaxShapes - 1)}

Point(x, y) == Dict(<< <<"Longitude", Num(x)>>, <<"Latitude", Num(y)>> >>)

\* three points of the documentation and a point without its latitude
GoodPoints == {Point(1, 2), Point(3, 4), Point(5, 6)}
BadPoints == {Dict(<< <<"Longitude", Num(1)>> >>)}

GPolygon(points) == Dict(<< <<"Boundary", Dict(<< <<"Points", points>> >>)>> >>)

FirstGPolygons ==
    {GPolygon(List(ps)) : ps \in SeqsUpTo(GoodPoints \cup BadPoints, MaxPoints)}
    \cup {GPolygon(None), Dict(<< <<"Boundary", Dict(<<>>)>> >>), Dict(<<>>)}

LaterGPolygons == {GPolygon(List(<<Point(7, 8), Point(9, 8), Point(9, 9)>>))}

GPolygonLists ==
    {<<>>} \cup
    {<<g>> \o tail : g \in FirstGPolygons,
                     tail \in SeqsUpTo(LaterGPolygons, MaxShapes - 1)}

Triangle == <<GPolygon(List(<<Point(1, 2), Point(3, 4), Point(5, 6)>>))>>

\* the values of ...HorizontalSpatialDomain.Geometry
GeometrySet ==
    {Dict(<< <<"BoundingRectangles", List(l)>> >>) : l \in RectLists}
    \cup {Dict(<< <<"GPolygons", List(l)>> >>) : l \in GPolygonLists}
    \cup {Dict(<< <<"BoundingRectangles", List(l)>>, <<"GPolygons", List(g)>> >>) :
            l \in {<<>>, <<None>>, <<Rect(0, 0, 1, 1)>>}, g \in {<<>>, Triangle}}
    \cup {Dict(<< <<"GPolygons", List(Triangle)>>, <<"BoundingRectangles", List(l)>> >>) :
            l \in {<<>>, <<Rect(0, 0, 1, 1)>>}}
    \cup {Dict(<< <<"BoundingRectangles", None>>, <<"GPolygons", List(Triangle)>> >>),
          Dict(<< <<"BoundingRectangles", None>> >>),
          Dict(<< <<"GPolygons", None>> >>),
          Dict(<<>>),
          Dict(<< <<"Lines", List(<<>>)>> >>),
          None,
          List(<<>>)}

\* a granule is the mapping {"meta": ..., "umm": ..., "size": ...}
Meta == Dict(<< <<"concept-id", Str("G1-PROV")>>, <<"provider-id", Str("PROV")>> >>)

GranuleOf(ummItems) ==
    Dict(<< <<"meta", Meta>>, <<"umm", Dict(ummItems)>>, <<"size", Num(1)>> >>)

SpatialExtent(geo) ==
    <<"SpatialExtent",
      Dict(<< <<"HorizontalSpatialDomain", Dict(<< <<"Geometry", geo>> >>)>> >>)>>

\* the granules _get_shapely_object is called on: every geometry of
\* GeometrySet, and granules in which the path to the geometry stops early
ShapeGranules ==
    {GranuleOf(<<SpatialExtent(g)>>) : g \in GeometrySet}
    \cup {Dict(<< <<"meta", Meta>> >>),
          GranuleOf(<<>>),
          GranuleOf(<< <<"SpatialExtent", Dict(<<>>)>> >>),
          GranuleOf(<< <<"SpatialExtent", Dict(<< <<"HorizontalSpatialDomain", Dict(<<>>)>> >>)>> >>),
          GranuleOf(<< <<"SpatialExtent", None>> >>)}

Link(type, url) == Dict(<< <<"Type", Str(type)>>, <<"URL", Str(url)>> >>)

LinkSet ==
    {Link("GET DATA", "https://d"), Link("GET DATA VIA DIRECT ACCESS", "s3://d"),
     Link("Browse", "https://b"), Link("GET RELATED VISUALIZATION", "https://v")}

\* the link list of the documentation: GET DATA, Browse, GET RELATED VISUALIZATION
ExampleLinks ==
    <<Link("GET DATA", "https://d"), Link("Browse", "https://b"),
      Link("GET RELATED VISUALIZATION", "https://v")>>

\* the values of umm.RelatedUrls: lists of links, and malformed values (a
\* link without a Type, a link that is no mapping, null)
RelatedUrlsSet ==
    {List(l) : l \in SeqsUpTo(LinkSet, MaxLinks) \cup {ExampleLinks}}
    \cup {List(<<Link("GET DATA", "https://d"), Dict(<< <<"URL", Str("https://x")>> >>)>>),
          List(<<Str("https://x")>>),
          None}

BoxGeometry == Dict(<< <<"BoundingRectangles", List(<<Rect(0, 0, 1, 1)>>)>> >>)
TriangleGeometry == Dict(<< <<"GPolygons", List(Triangle)>> >>)

Versions ==
    << <<"CollectionReference", Dict(<< <<"Version", Str("1")>> >>)>>,
       <<"MetadataSpecification", Dict(<< <<"Version", Str("1.6")>> >>)>> >>

\* the first record of a call of results_to_geopandas: every value of
\* RelatedUrls, with a box or with no usable geometry
FirstGranules ==
    {GranuleOf(<< <<"RelatedUrls", u>>, <<"GranuleUR", Str("a")>>, SpatialExtent(g)>>) :
        u \in RelatedUrlsSet, g \in {BoxGeometry, Dict(<<>>)}}

\* the records that follow it
LaterGranules ==
    {GranuleOf(<< <<"RelatedUrls", List(ExampleLinks)>>, SpatialExtent(TriangleGeometry)>>),
     GranuleOf(<< <<"RelatedUrls", List(<<>>)>>, <<"GranuleUR", Str("b")>>,
                  SpatialExtent(BoxGeometry)>> \o Versions),
     GranuleOf(<< <<"GranuleUR", Str("c")>>,
                  <<"RelatedUrls", List(<<Link("Browse", "https://b")>>)>> >>),
     GranuleOf(<< <<"GranuleUR", Str("d")>>, SpatialExtent(BoxGeometry)>>),
     GranuleOf(<< <<"RelatedUrls", List(<<>>)>>,
                  <<"CollectionReference", Dict(<< <<"RelatedUrls", List(<<>>)>> >>)>> >>)}

ResultsSet ==
    {<<>>} \cup
    {<<g>> \o tail : g \in FirstGranules \cup LaterGranules,
                     tail \in SeqsUpTo(LaterGranules, MaxResults - 1)}

\* the fields argument: the default, and requests of one more column
FieldsSet ==
    {<<>>, <<Chars("size")>>, <<Chars("_granule_ur")>>, <<Chars("_version"), Chars("_granule_ur")>>}

---------------------------------------------------------------------------
(* pandas.json_normalize(results): one row per record, one column per     *)
(* path to a value that is not a mapping, the path joined with ".".        *)

RECURSIVE NormaliseJson(_, _)
RECURSIVE NormaliseItems(_, _, _)

\* the <<column name, value>> items of one record below the path key_string
NormaliseJson(data, key_string) ==
    IF data.t = "dict" THEN NormaliseItems(data.v, 1, key_string)
    ELSE << <<key_string, data>> >>

\* the path key_string extended by key
NewKey(key_string, key) ==
    IF key_string = <<>> THEN key ELSE key_string \o <<".">> \o key

NormaliseItems(items, i, key_string) ==
    IF i > Len(items) THEN <<>>
    ELSE NormaliseJson(items[i][2], NewKey(key_string, Chars(items[i][1])))
         \o NormaliseItems(items, i + 1, key_string)

\* the items of d whose value is (dicts = TRUE) or is not a mapping
RECURSIVE SelectItems(_, _, _)
SelectItems(items, i, dicts) ==
    IF i > Len(items) THEN <<>>
    ELSE (IF (items[i][2].t = "dict") = dicts THEN <<items[i]>> ELSE <<>>)
         \o SelectItems(items, i + 1, dicts)

\* one record flattened: its top-level values first, then the nested ones
NormaliseJsonOrdered(record) ==
    NormaliseJson(Dict(SelectItems(record.v, 1, FALSE)), <<>>)
    \o NormaliseJson(Dict(SelectItems(record.v, 1, TRUE)), <<>>)

\* the names of flat[i..] that are not in cols, appended to cols
RECURSIVE AppendNew(_, _, _)
AppendNew(cols, flat, i) ==
    IF i > Len(flat) THEN cols
    ELSE IF \E j \in 1..Len(cols) : cols[j] = flat[i][1]
         THEN AppendNew(cols, flat, i + 1)
         ELSE AppendNew(Append(cols, flat[i][1]), flat, i + 1)

\* the columns of the table: every name, in the order of first appearance
RECURSIVE ColumnsOf(_, _, _)
ColumnsOf(cols, flats, i) ==
    IF i > Len(flats) THEN cols
    ELSE ColumnsOf(AppendNew(cols, flats[i], 1), flats, i + 1)

\* the cell of a flattened record in column name: NaN when it has none
CellOf(flat, name) ==
    IF \E j \in 1..Len(flat) : flat[j][1] = name
    THEN flat[CHOOSE j \in 1..Len(flat) : flat[j][1] = name][2]
    ELSE NaN

\* the table of the flattened records flats with the columns cols
Frame(flats, cols) ==
    [columns |-> cols,
     data |-> [i \in 1..Len(flats) |->
                 [j \in 1..Len(cols) |-> CellOf(flats[i], cols[j])]]]

\* every record flattened, in the order of the records
FlatRecords(res) == [i \in 1..Len(res) |-> NormaliseJsonOrdered(res[i])]

TableOf(flats) == Frame(flats, ColumnsOf(<<>>, flats, 1))

\* gpd.pd.json_normalize(results, errors="ignore")
JsonNormalize(res) == TableOf(FlatRecords(res))

---------------------------------------------------------------------------
(* results_to_geopandas                                                    *)

default_fields ==
    << Chars("size"), Chars("concept_id"), Chars("dataset-id"), Chars("native-id"),
       Chars("provider-id"), Chars("_related_urls"), Chars("_single_date_time"),
       Chars("_beginning_date_time"), Chars("_ending_date_time"), Chars("geometry") >>

Range(s) == {s[i] : i \in 1..Len(s)}

\* a bug that ignores the requested fields
EffectiveFieldsDefault(flds) == Range(default_fields)

\* lines 120-123: the fields the columns are filtered by
EffectiveFields(flds) ==
    IF Len(flds) = 0 THEN Range(default_fields)
    ELSE Range(flds \o default_fields)

\* the subsequence of s at the positions of the set keep
RECURSIVE SelectPos(_, _, _)
SelectPos(s, i, keep) ==
    IF i > Len(s) THEN <<>>
    ELSE (IF i \in keep THEN <<s[i]>> ELSE <<>>) \o SelectPos(s, i + 1, keep)

\* the table with the columns at the positions of keep only
KeepColumns(d, keep) ==
    [columns |-> SelectPos(d.columns, 1, keep),
     data |-> [i \in 1..Len(d.data) |-> SelectPos(d.data[i], 1, keep)]]

\* lines 125-127: results_df.drop(columns=[col ... if col not in fields])
DropColumns(d, flds) ==
    KeepColumns(d, {j \in 1..Len(d.columns) : d.columns[j] \in flds})

AllowedTypes == {"GET DATA", "GET DATA VIA DIRECT ACCESS", "GET RELATED VISUALIZATION"}

\* a bug that forgets one of the three types
AllowedLess(type) == type.t = "str" /\ type.v \in {"GET DATA", "GET DATA VIA DIRECT ACCESS"}

\* link["Type"] in [...]
Allowed(type) == type.t = "str" /\ type.v \in AllowedTypes

\* one step of the comprehension: link is kept when its type is allowed
KeepIf(type, link, rest) ==
    IF ~type.ok THEN type ELSE IF ~rest.ok THEN rest
    ELSE Ok((IF Allowed(type.val) THEN <<link>> ELSE <<>>) \o rest.val)

\* the list comprehension of the lambda over links[i..]: the first link
\* without a "Type" raises
RECURSIVE FilterLinks(_, _)
FilterLinks(links, i) ==
    IF i > Len(links) THEN Ok(<<>>)
    ELSE KeepIf(GetItem(links[i], "Type"), links[i], FilterLinks(links, i + 1))

\* the lambda of lines 130-139 on one cell: NaN (a float), None and numbers
\* are not iterable
FilterCell(cell) ==
    IF cell.t = "list" THEN Bind(FilterLinks(cell.v, 1), LAMBDA kept : Ok(List(kept)))
    ELSE IF cell.t = "str" /\ cell.v = "" THEN Ok(List(<<>>))
    ELSE Raise("TypeError")

\* Series.apply: the lambda on the cells of column j, from row i on
RECURSIVE ApplyRows(_, _, _)
ApplyRows(data, j, i) ==
    IF i > Len(data) THEN Ok(<<>>)
    ELSE Cons(Bind(FilterCell(data[i][j]), LAMBDA c : Ok([data[i] EXCEPT ![j] = c])),
              ApplyRows(data, j, i + 1))

\* the positions of the columns called name
Positions(columns, name) == {j \in 1..Len(columns) : columns[j] = name}

\* a bug-tolerant variant that skips the apply when the column is absent
ApplyColumnsGuarded(d, cols) ==
    IF cols = {} THEN Ok(d)
    ELSE IF Cardinality(cols) > 1 THEN Raise("TypeError")
    ELSE Bind(ApplyRows(d.data, CHOOSE j \in cols : TRUE, 1),
              LAMBDA rows : Ok([d EXCEPT !.data = rows]))

\* the apply of lines 129-140 on the columns cols of d: no column raises
\* KeyError; several columns of that name are a DataFrame, whose apply hands
\* the lambda whole columns, and link["Type"] on a cell raises TypeError
ApplyColumns(d, cols) ==
    IF cols = {} THEN Raise("KeyError")
    ELSE IF Cardinality(cols) > 1 THEN Raise("TypeError")
    ELSE Bind(ApplyRows(d.data, CHOOSE j \in cols : TRUE, 1),
              LAMBDA rows : Ok([d EXCEPT !.data = rows]))

\* lines 129-140: results_df["_related_urls"] = results_df["_related_urls"].apply(...)
FilterRelatedUrls(d) == ApplyColumns(d, Positions(d.columns, Chars("_related_urls")))

\* results_df.index.to_list(): the RangeIndex 0..n-1 of the table
IndexList(d) == [i \in 1..Len(d.data) |-> i - 1]

\* a bug that pairs the rows with the records in reverse
RECURSIVE GeometriesReversed(_, _, _)
GeometriesReversed(res, index, i) ==
    IF i > Len(index) THEN Ok(<<>>)
    ELSE Cons(GetShapelyObject(res[Len(res) - index[i]]),
              GeometriesReversed(res, index, i + 1))

\* lines 142-144: [_get_shapely_object(results[index]) for index in ...];
\* results[index] is the record at position index + 1 of the sequence
RECURSIVE Geometries(_, _, _)
Geometries(res, index, i) ==
    IF i > Len(index) THEN Ok(<<>>)
    ELSE Cons(GetShapelyObject(res[index[i] + 1]), Geometries(res, index, i + 1))

\* the table d with the geometry column geometries, in the place of any
\* column of that name
SetGeometry(d, geometries) ==
    [columns |-> d.columns, data |-> d.data, geometry |-> geometries, crs |-> "EPSG:4326"]

\* gpd.GeoDataFrame(results_df, geometry=geometries, crs="EPSG:4326")
GeoDataFrame(d, geometries) ==
    SetGeometry(KeepColumns(d, (1..Len(d.columns)) \ Positions(d.columns, Chars("geometry"))),
                geometries)

\* results_to_geopandas(results, fields)
ResultsToGeopandas(res, flds) ==
    Bind(FilterRelatedUrls(DropColumns(FlattenColumnNames(JsonNormalize(res)),
                                       EffectiveFields(flds))),
         LAMBDA d : Bind(Geometries(res, IndexList(d), 1),
                         LAMBDA g : Ok(GeoDataFrame(d, g))))

\* _list_metadata_fields(results)
ListMetadataFields(res) == FlattenColumnNames(JsonNormalize(res)).columns

---------------------------------------------------------------------------
(* The calls.                                                              *)

Pending == [ok |-> TRUE, val |-> None, exc |-> "pending"]
NoDf == [columns |-> <<>>, data |-> <<>>]

Init ==
    /\ pc = "call"
    /\ ret = Pending
    /\ \/ fn = "_flatten_column_names" /\ df \in DfSet
          /\ result = None /\ results = <<>> /\ fields = <<>>
       \/ fn = "_get_shapely_object" /\ result \in ShapeGranules
          /\ df = NoDf /\ results = <<>> /\ fields = <<>>
       \/ fn = "results_to_geopandas" /\ results \in ResultsSet /\ fields \in FieldsSet
          /\ df = NoDf /\ result = None
       \/ fn = "_list_metadata_fields" /\ results \in SeqsUpTo(LaterGranules, MaxResults)
          /\ df = NoDf /\ result = None /\ fields = <<>>

CallFlattenColumnNames ==
    /\ pc = "call" /\ fn = "_flatten_column_names"
    /\ ret' = Ok(FlattenColumnNames(df))
    /\ pc' = "done"
    /\ UNCHANGED <<fn, df, result, results, fields>>

CallGetShapelyObject ==
    /\ pc = "call" /\ fn = "_get_shapely_object"
    /\ ret' = GetShapelyObject(result)
    /\ pc' = "done"
    /\ UNCHANGED <<fn, df, result, results, fields>>

CallResultsToGeopandas ==
    /\ pc = "call" /\ fn = "results_to_geopandas"
    /\ ret' = ResultsToGeopandas(results, fields)
    /\ pc' = "done"
    /\ UNCHANGED <<fn, df, result, results, fields>>

CallListMetadataFields ==
    /\ pc = "call" /\ fn = "_list_metadata_fields"
    /\ ret' = Ok(ListMetadataFields(results))
    /\ pc' = "done"
    /\ UNCHANGED <<fn, df, result, results, fields>>

Next ==
    \/ CallFlattenColumnNames
    \/ CallGetShapelyObject
    \/ CallResultsToGeopandas
    \/ CallListMetadataFields

Spec == Init /\ [][Next]_vars

---------------------------------------------------------------------------
(* The states the properties are about, and the reading of the arguments   *)
(* they need.                                                              *)

FlattenDone == fn = "_flatten_column_names" /\ pc = "done"
ShapeDone == fn = "_get_shapely_object" /\ pc = "done"
TableDone == fn = "results_to_geopandas" /\ pc = "done"

IsDictWith(x, k) == x.t = "dict" /\ HasKey(x, k)

\* the record has a value at umm.SpatialExtent.HorizontalSpatialDomain.Geometry
HasGeometryPath(g) ==
    /\ IsDictWith(g, "umm")
    /\ IsDictWith(DictGet(g, "umm"), "SpatialExtent")
    /\ IsDictWith(DictGet(DictGet(g, "umm"), "SpatialExtent"), "HorizontalSpatialDomain")
    /\ IsDictWith(DictGet(DictGet(DictGet(g, "umm"), "SpatialExtent"),
                          "HorizontalSpatialDomain"), "Geometry")

GeometryAt(g) ==
    DictGet(DictGet(DictGet(DictGet(g, "umm"), "SpatialExtent"),
                    "HorizontalSpatialDomain"), "Geometry")

CoordinateKeys ==
    {"WestBoundingCoordinate", "SouthBoundingCoordinate",
     "EastBoundingCoordinate", "NorthBoundingCoordinate"}

WellFormedRect(r) ==
    r.t = "dict" /\ \A k \in CoordinateKeys : HasKey(r, k) /\ DictGet(r, k).t = "num"

\* the geometry mapping has a BoundingRectangles key
HasRects(g) == HasGeometryPath(g) /\ IsDictWith(GeometryAt(g), "BoundingRectangles")

RectsAt(g) == DictGet(GeometryAt(g), "BoundingRectangles")

\* ... whose first rectangle is well formed
HasGoodRect(g) ==
    /\ HasRects(g)
    /\ RectsAt(g).t = "list" /\ Len(RectsAt(g).v) > 0
    /\ WellFormedRect(RectsAt(g).v[1])

West(g) == DictGet(RectsAt(g).v[1], "WestBoundingCoordinate").v
South(g) == DictGet(RectsAt(g).v[1], "SouthBoundingCoordinate").v
East(g) == DictGet(RectsAt(g).v[1], "EastBoundingCoordinate").v
North(g) == DictGet(RectsAt(g).v[1], "NorthBoundingCoordinate").v

\* the geometry mapping has a GPolygons key and no BoundingRectangles key
HasPolygonsOnly(g) ==
    /\ HasGeometryPath(g)
    /\ IsDictWith(GeometryAt(g), "GPolygons")
    /\ ~HasKey(GeometryAt(g), "BoundingRectangles")

PolygonsAt(g) == DictGet(GeometryAt(g), "GPolygons")

\* ... whose first polygon has a list at Boundary.Points
HasPointList(g) ==
    /\ PolygonsAt(g).t = "list" /\ Len(PolygonsAt(g).v) > 0
    /\ IsDictWith(PolygonsAt(g).v[1], "Boundary")
    /\ IsDictWith(DictGet(PolygonsAt(g).v[1], "Boundary"), "Points")
    /\ DictGet(DictGet(PolygonsAt(g).v[1], "Boundary"), "Points").t = "list"

PointsAt(g) == DictGet(DictGet(PolygonsAt(g).v[1], "Boundary"), "Points").v

WellFormedPoint(p) ==
    /\ IsDictWith(p, "Longitude") /\ DictGet(p, "Longitude").t = "num"
    /\ IsDictWith(p, "Latitude") /\ DictGet(p, "Latitude").t = "num"

HasGoodPoints(g) ==
    /\ HasPolygonsOnly(g) /\ HasPointList(g)
    /\ \A i \in 1..Len(PointsAt(g)) : WellFormedPoint(PointsAt(g)[i])

\* the (Longitude, Latitude) pairs of the points, in their order
LonLat(g) ==
    [i \in 1..Len(PointsAt(g)) |->
        <<DictGet(PointsAt(g)[i], "Longitude").v, DictGet(PointsAt(g)[i], "Latitude").v>>]

\* the cases in which the claim C1 expects no geometry: the path is absent,
\* a lookup inside it fails, or neither key is there
NoGeometryCase(g) ==
    \/ ~HasGeometryPath(g)
    \/ /\ GeometryAt(g).t = "dict"
       /\ ~HasKey(GeometryAt(g), "BoundingRectangles")
       /\ ~HasKey(GeometryAt(g), "GPolygons")
    \/ /\ HasRects(g) /\ RectsAt(g).t = "list"
       /\ \/ Len(RectsAt(g).v) = 0
          \/ /\ RectsAt(g).v[1].t = "dict"
             /\ \E k \in CoordinateKeys : ~HasKey(RectsAt(g).v[1], k)
    \/ /\ HasPolygonsOnly(g) /\ PolygonsAt(g).t = "list"
       /\ \/ Len(PolygonsAt(g).v) = 0
          \/ /\ PolygonsAt(g).v[1].t = "dict"
             /\ \/ ~HasKey(PolygonsAt(g).v[1], "Boundary")
                \/ ~IsDictWith(DictGet(PolygonsAt(g).v[1], "Boundary"), "Points")
          \/ /\ HasPointList(g)
             /\ \E i \in 1..Len(PointsAt(g)) :
                    /\ PointsAt(g)[i].t = "dict"
                    /\ ~(HasKey(PointsAt(g)[i], "Longitude") /\ HasKey(PointsAt(g)[i], "Latitude"))

\* twice the signed area of a closed ring: positive when counter-clockwise
RECURSIVE Shoelace(_, _)
Shoelace(ring, i) ==
    IF i >= Len(ring) THEN 0
    ELSE ring[i][1] * ring[i + 1][2] - ring[i + 1][1] * ring[i][2] + Shoelace(ring, i + 1)

\* the value of umm.RelatedUrls of a record is a list of mappings with a Type
HasLinkList(g) ==
    /\ IsDictWith(g, "umm") /\ IsDictWith(DictGet(g, "umm"), "RelatedUrls")
    /\ DictGet(DictGet(g, "umm"), "RelatedUrls").t = "list"
    /\ \A i \in 1..Len(DictGet(DictGet(g, "umm"), "RelatedUrls").v) :
           IsDictWith(DictGet(DictGet(g, "umm"), "RelatedUrls").v[i], "Type")

LinksAt(g) == DictGet(DictGet(g, "umm"), "RelatedUrls").v

\* the related-urls value of a record is malformed in a way the claim C9
\* covers: the record has none, it is null or a number, or it is a list
\* with an entry that is no mapping with a Type
MalformedUrls(g) ==
    \/ ~(IsDictWith(g, "umm") /\ IsDictWith(DictGet(g, "umm"), "RelatedUrls"))
    \/ DictGet(DictGet(g, "umm"), "RelatedUrls").t \in {"none", "nan", "num"}
    \/ /\ DictGet(DictGet(g, "umm"), "RelatedUrls").t = "list"
       /\ \E i \in 1..Len(LinksAt(g)) : ~IsDictWith(LinksAt(g)[i], "Type")

\* no record has a value that flattens to a column _related_urls
NoRelatedUrlsColumn(res) ==
    \A i \in 1..Len(res) :
        \A j \in 1..Len(NormaliseJsonOrdered(res[i])) :
            NormalizeName(NormaliseJsonOrdered(res[i])[j][1]) # Chars("_related_urls")

\* the position of the only column called name
ColumnAt(columns, name) == CHOOSE j \in 1..Len(columns) : columns[j] = name

Reverse(s) == [i \in 1..Len(s) |-> s[Len(s) + 1 - i]]

---------------------------------------------------------------------------
(* Properties.                                                             *)

\* the normalized column names of the flattened table of the call
FlatColumns == FlattenColumnNames(JsonNormalize(results)).columns

\* how often name occurs in the sequence s
Count(s, name) == Cardinality({j \in 1..Len(s) : s[j] = name})

\* C1: _get_shapely_object returns a geometry or None and never raises; in
\* each case the claim lists (path absent, a lookup inside it fails, neither
\* BoundingRectangles nor GPolygons) it returns None; and in
\* results_to_geopandas such a record has a None geometry in its row, the
\* other rows have their own geometries, and the call raises only for its
\* related-urls column, never for a geometry.
C1_ExtractorNeverRaises ==
    /\ ShapeDone =>
          /\ ret.ok
          /\ ret.val.t \in {"none", "polygon"}
          /\ NoGeometryCase(result) => ret.val = None
    /\ TableDone =>
          /\ (\A i \in 1..Len(results) : HasLinkList(results[i]))
                /\ Count(FlatColumns, Chars("_related_urls")) = 1 => ret.ok
          /\ ret.ok =>
                \A i \in 1..Len(results) :
                    /\ NoGeometryCase(results[i]) => ret.val.geometry[i] = None
                    /\ HasGoodRect(results[i]) => ret.val.geometry[i].t = "polygon"

\* C1 witness: a call of results_to_geopandas that returned a table whose
\* first record has no usable geometry and whose second record has one.
C1_Witness ==
    /\ TableDone /\ ret.ok /\ Len(results) = 2
    /\ NoGeometryCase(results[1]) /\ ret.val.geometry[1] = None
    /\ ret.val.geometry[2].t = "polygon"

\* shape is the box of the bounds w, s, e, n: a closed ring of the four
\* corners in the order (e, s), (e, n), (w, n), (w, s), with (e, s) repeated
\* at the end when w differs from e (when w = e the fourth corner is the
\* first and the ring is closed by it)
IsBoxOf(shape, w, s, e, n) ==
    /\ shape.t = "polygon"
    /\ Len(shape.v) \in {4, 5}
    /\ SubSeq(shape.v, 1, 4) = << <<e, s>>, <<e, n>>, <<w, n>>, <<w, s>> >>
    /\ shape.v[Len(shape.v)] = <<e, s>>
    /\ w # e => Len(shape.v) = 5

\* C2 (amended): for a record whose geometry mapping has BoundingRectangles
\* with a well-formed first rectangle, the result is the box of that first
\* rectangle alone, with the vertex sequence (east, south), (east, north),
\* (west, north), (west, south), closed by (east, south) when west differs
\* from east; it is counter-clockwise when west < east and south < north.
C2_BoxFromFirstRectangle ==
    ShapeDone /\ HasGoodRect(result) =>
        /\ ret.ok
        /\ IsBoxOf(ret.val, West(result), South(result), East(result), North(result))
        /\ West(result) < East(result) /\ South(result) < North(result)
              => Shoelace(ret.val.v, 1) > 0

\* C2 as claimed, on rectangles with west < east and south < north: the
\* vertex sequence is counter-clockwise and is (west, south), (east, south),
\* (east, north), (west, north).
C2_AsClaimed ==
    ShapeDone /\ HasGoodRect(result)
        /\ West(result) < East(result) /\ South(result) < North(result) =>
        /\ ret.ok /\ ret.val.t = "polygon"
        /\ Len(ret.val.v) >= 4
        /\ SubSeq(ret.val.v, 1, 4) =
              << <<West(result), South(result)>>, <<East(result), South(result)>>,
                 <<East(result), North(result)>>, <<West(result), North(result)>> >>
        /\ Shoelace(ret.val.v, 1) > 0

\* C2 witness: the rectangle (0, 0, 1, 1) followed by another rectangle
\* gave the box of the first.
C2_Witness ==
    /\ ShapeDone /\ HasGoodRect(result)
    /\ Len(RectsAt(result).v) = 2
    /\ RectsAt(result).v[1] = Rect(0, 0, 1, 1)
    /\ RectsAt(result).v[2] = Rect(5, 6, 7, 8)
    /\ ret.val = Geom(<< <<1, 0>>, <<1, 1>>, <<0, 1>>, <<0, 0>>, <<1, 0>> >>)

\* C3 (amended): for a record with GPolygons and no BoundingRectangles whose
\* first polygon has three or more well-formed points, the ring of the
\* result starts with exactly the (Longitude, Latitude) pairs of the points
\* in their order, and ends there unless the points are three or the last
\* differs from the first, in which case one copy of the first pair closes
\* it.  No points give the empty polygon; one or two points give None.
C3_PolygonRing ==
    ShapeDone /\ HasGoodPoints(result) =>
        LET pairs == LonLat(result)
            n == Len(pairs)
        IN  /\ ret.ok
            /\ n = 0 => ret.val = Geom(<<>>)
            /\ n \in {1, 2} => ret.val = None
            /\ n >= 3 =>
                  /\ ret.val.t = "polygon"
                  /\ SubSeq(ret.val.v, 1, n) = pairs
                  /\ IF n = 3 \/ pairs[1] # pairs[n]
                     THEN ret.val.v = Append(pairs, pairs[1])
                     ELSE ret.val.v = pairs

\* C3 as claimed, on three or more points: the ring is exactly the
\* sequence of pairs, no point added.
C3_AsClaimed ==
    ShapeDone /\ HasGoodPoints(result) /\ Len(PointsAt(result)) >= 3 =>
        ret.ok /\ ret.val.t = "polygon" /\ ret.val.v = LonLat(result)

\* C3 witness: the points (1,2), (3,4), (5,6) gave the ring
\* (1,2), (3,4), (5,6), (1,2).
C3_Witness ==
    /\ ShapeDone /\ HasGoodPoints(result)
    /\ LonLat(result) = << <<1, 2>>, <<3, 4>>, <<5, 6>> >>
    /\ ret.val = Geom(<< <<1, 2>>, <<3, 4>>, <<5, 6>>, <<1, 2>> >>)

TenDefaults ==
    {Chars("size"), Chars("concept_id"), Chars("dataset-id"), Chars("native-id"),
     Chars("provider-id"), Chars("_related_urls"), Chars("_single_date_time"),
     Chars("_beginning_date_time"), Chars("_ending_date_time"), Chars("geometry")}

\* the effective field set of the claim C4
ClaimedFields ==
    IF fields = <<>> THEN TenDefaults ELSE TenDefaults \cup Range(fields)

\* C4: the columns of the output other than geometry are exactly the
\* columns of the flattened table whose normalized name is in the effective
\* field set (the ten defaults, with the requested fields when there are any).
C4_ColumnsAreEffectiveFields ==
    TableDone /\ ret.ok =>
        /\ Cardinality(TenDefaults) = 10
        /\ \A name \in Range(FlatColumns) \cup Range(ret.val.columns) :
              Count(ret.val.columns, name) =
                  IF name \in ClaimedFields /\ name # Chars("geometry")
                  THEN Count(FlatColumns, name) ELSE 0

\* C4 witness: a call that asked for _granule_ur got it next to the default
\* columns, and a column of the flattened table outside the set is gone.
C4_Witness ==
    /\ TableDone /\ ret.ok /\ fields = <<Chars("_granule_ur")>>
    /\ Chars("_granule_ur") \in Range(ret.val.columns)
    /\ Chars("size") \in Range(ret.val.columns)
    /\ Chars("_related_urls") \in Range(ret.val.columns)
    /\ \E name \in Range(FlatColumns) : name \notin Range(ret.val.columns)

\* the links of a list whose Type is one of the three allowed, in order
AllowedLinks(links) ==
    SelectSeq(links, LAMBDA link :
        DictGet(link, "Type") \in
            {Str("GET DATA"), Str("GET DATA VIA DIRECT ACCESS"), Str("GET RELATED VISUALIZATION")})

\* the _related_urls cell of row i of the returned table
UrlsCell(table, i) == table.data[i][ColumnAt(table.columns, Chars("_related_urls"))]

\* C5: in every row of the output, _related_urls is the list of the
\* record's links whose Type is GET DATA, GET DATA VIA DIRECT ACCESS or
\* GET RELATED VISUALIZATION, in their original order and unchanged.
C5_RelatedUrlsFiltered ==
    TableDone /\ ret.ok =>
        \A i \in 1..Len(results) :
            UrlsCell(ret.val, i) = List(AllowedLinks(LinksAt(results[i])))

\* C5 witness: the links GET DATA, Browse, GET RELATED VISUALIZATION of the
\* first record came out as the first and the third.
C5_Witness ==
    /\ TableDone /\ ret.ok /\ Len(results) > 0
    /\ LinksAt(results[1]) = ExampleLinks
    /\ UrlsCell(ret.val, 1) = List(<<ExampleLinks[1], ExampleLinks[3]>>)

\* the outcome rev of a call has the rows and geometries of table reversed
IsReverseOf(rev, table) ==
    /\ rev.ok
    /\ rev.val.geometry = Reverse(table.geometry)
    /\ \A i \in 1..Len(table.data) :
          UrlsCell(rev.val, i) = UrlsCell(table, Len(table.data) + 1 - i)

RECURSIVE RuleFrom(_, _)
RuleFrom(seg, i) ==
    IF i > Len(seg) THEN <<>>
    ELSE (IF seg[i] \in Upper /\ (i = 1 \/ seg[i - 1] \notin Upper) THEN <<"_">> ELSE <<>>)
         \o <<IF seg[i] \in Upper THEN LowerOf[seg[i]] ELSE seg[i]>>
         \o RuleFrom(seg, i + 1)

\* out is the rule's name for col: the rule applied to what follows the
\* last "." of col
FollowsRule(col, out) ==
    \E k \in 0..Len(col) :
        /\ k = 0 \/ col[k] = "."
        /\ \A m \in (k + 1)..Len(col) : col[m] # "."
        /\ out = RuleFrom(SubSeq(col, k + 1, Len(col)), 1)

\* C7 (amended): _flatten_column_names maps every column name to its last
\* dot-separated segment with one underscore before each maximal run of
\* upper-case letters, lower-cased; umm.RelatedUrls becomes _related_urls
\* and umm.SizeMB becomes _size_mb; the data and the order of the columns
\* are unchanged.
C7_NormalizerRule ==
    FlattenDone =>
        /\ ret.val.data = df.data
        /\ Len(ret.val.columns) = Len(df.columns)
        /\ \A i \in 1..Len(df.columns) :
              /\ FollowsRule(df.columns[i], ret.val.columns[i])
              /\ df.columns[i] = Chars("umm.RelatedUrls")
                    => ret.val.columns[i] = Chars("_related_urls")
              /\ df.columns[i] = Chars("umm.SizeMB")
                    => ret.val.columns[i] = Chars("_size_mb")

\* C7 as claimed: the same, with umm.SizeMB becoming _size_m_b.
C7_AsClaimed ==
    FlattenDone =>
        /\ ret.val.data = df.data
        /\ Len(ret.val.columns) = Len(df.columns)
        /\ \A i \in 1..Len(df.columns) :
              /\ FollowsRule(df.columns[i], ret.val.columns[i])
              /\ df.columns[i] = Chars("umm.RelatedUrls")
                    => ret.val.columns[i] = Chars("_related_urls")
              /\ df.columns[i] = Chars("umm.SizeMB")
                    => ret.val.columns[i] = Chars("_size_m_b")

\* C7 witness: the table with the columns umm.SizeMB, umm.RelatedUrls came
\* back with the columns _size_mb, _related_urls.
C7_Witness ==
    /\ FlattenDone
    /\ df.columns = <<Chars("umm.SizeMB"), Chars("umm.RelatedUrls")>>
    /\ ret.val.columns = <<Chars("_size_mb"), Chars("_related_urls")>>

\* C8: the names _flatten_column_names returns are fixed points of it:
\* normalizing the returned table again changes no name.
C8_NormalizerIdempotent ==
    FlattenDone => FlattenColumnNames(ret.val).columns = ret.val.columns

\* C8 witness: a name with a prefix and upper-case letters was changed by
\* the first call and is left alone by the second.
C8_Witness ==
    /\ FlattenDone
    /\ df.columns[1] = <<"a", ".", "B", "C">>
    /\ ret.val.columns[1] = <<"_", "b", "c">>
    /\ FlattenColumnNames(ret.val).columns = ret.val.columns

\* C9 (amended): a table without a _related_urls column (no record has the
\* value) makes results_to_geopandas raise KeyError; a record whose
\* related-urls value is missing, null, or a list with an entry that is no
\* mapping with a Type makes it raise too, KeyError or TypeError; it returns
\* no table in either case.
C9_UrlErrorsPropagate ==
    TableDone =>
        /\ NoRelatedUrlsColumn(results) => ~ret.ok /\ ret.exc = "KeyError"
        /\ (\E i \in 1..Len(results) : MalformedUrls(results[i]))
              => ~ret.ok /\ ret.exc \in {"KeyError", "TypeError"}
        /\ ~ret.ok => ret.val = None

\* C9 as claimed: both kinds of failure surface as lookup (key) errors.
C9_AsClaimed ==
    TableDone =>
        /\ NoRelatedUrlsColumn(results) => ~ret.ok /\ ret.exc = "KeyError"
        /\ (\E i \in 1..Len(results) : MalformedUrls(results[i]))
              => ~ret.ok /\ ret.exc = "KeyError"

\* C9 witness: a call on records without RelatedUrls raised KeyError.
C9_Witness ==
    /\ TableDone /\ Len(results) > 0
    /\ NoRelatedUrlsColumn(results)
    /\ ~ret.ok /\ ret.exc = "KeyError"

\* C10: when the geometry mapping has a BoundingRectangles key the result
\* is decided by the rectangles alone: the box of the first rectangle when
\* it is well formed, None otherwise, whatever GPolygons holds.
C10_RectanglesDecide ==
    ShapeDone /\ HasRects(result) =>
        IF HasGoodRect(result)
        THEN IsBoxOf(ret.val, West(result), South(result), East(result), North(result))
        ELSE ret.val = None

\* C10 witness: an empty BoundingRectangles list next to a valid GPolygons
\* entry gave None.
C10_Witness ==
    /\ ShapeDone /\ HasRects(result)
    /\ RectsAt(result) = List(<<>>)
    /\ IsDictWith(GeometryAt(result), "GPolygons")
    /\ DictGet(GeometryAt(result), "GPolygons") = List(Triangle)
    /\ ret.val = None

===========================================================================
